---- MODULE Spec2Model ----
(***************************************************************************)
(* State-machine model of the RecoverFHE contract (src/README.md, lines    *)
(* 145-339): recovery sessions, encrypted shards, shard verification,      *)
(* threshold completion and the XOR combination of verified shards.        *)
(*                                                                         *)
(* Every external call of the contract is one atomic action (a ledger      *)
(* transaction).  A call that hits a failing require reverts: the contract *)
(* state and the event log stay as they were, and the revert reason is all *)
(* the caller gets; the ...Revert operators give that reason.              *)
(***************************************************************************)
EXTENDS Integers, Sequences, FiniteSets, TLC

(* ------------------------------ bounds --------------------------------- *)

\* largest totalShards a caller passes to createSession
MaxShards == 2

\* longest event log explored (successful transactions are cut off there)
MaxEvents == 7

(* --------------------------- input domains ----------------------------- *)

SessionIdSet == {"s1"}

Names == {"", "n"}

Descriptions == {"d"}

\* address(0), the default of an unset address field
ZeroAddress == "0x0"

\* msg.sender of a transaction
Addresses == {"a1"}

\* the accounts an input proof can be attributed to
ProofOwners == Addresses \cup {"a2"}

\* block.timestamp of a transaction
BlockTimestamps == {1}

\* a 256-bit unsigned integer, written high * 2^32 + low with low below 2^32
Uint256(high, low) == [high |-> high, low |-> low]

\* the pairs callers pass as (publicValue1, publicValue2)
PublicValuePairs ==
    {<<Uint256(0, 7), Uint256(0, 42)>>, <<Uint256(0, 7), Uint256(0, 7)>>}

\* shard slots addressed by callers; MaxShards itself is never a valid index
ShardIndexes == 0 .. MaxShards

\* the handle of an euint32 that was never initialised
NoHandle == 0

\* ciphertext handles produced by the external encryption capability
Handles == {1, 2}

\* the cleartext an encrypted handle decrypts to (fixed by the encryption)
ClearOf(h) == CASE h = 1 -> 7
                [] h = 2 -> 42
                [] OTHER -> 0

\* clear values a caller may put into abiEncodedClearValue
ClearValues == {Uint256(0, 7), Uint256(0, 42)}

(* ------------------------------- state --------------------------------- *)

VARIABLES
    sessions,       \* mapping(string => RecoverySession)
    sessionShards,  \* mapping(string => mapping(uint256 => Shard))
    shardCount,     \* mapping(string => uint256)
    sessionIds,     \* string[]
    events,         \* the contract's event log, oldest first
    decryptable     \* handles the contract made publicly decryptable

vars == <<sessions, sessionShards, shardCount, sessionIds, events,
          decryptable>>

\* the zero value of struct RecoverySession
EmptySession ==
    [name |-> "", threshold |-> 0, totalShards |-> 0,
     publicValue1 |-> Uint256(0, 0), publicValue2 |-> Uint256(0, 0),
     description |-> "",
     creator |-> ZeroAddress, timestamp |-> 0,
     decryptedValue |-> 0, isComplete |-> FALSE]

\* the zero value of struct Shard
EmptyShard ==
    [encryptedValue |-> NoHandle, holder |-> ZeroAddress, isVerified |-> FALSE]

Init ==
    /\ sessions = [id \in SessionIdSet |-> EmptySession]
    /\ sessionShards = [id \in SessionIdSet |-> [i \in ShardIndexes |-> EmptyShard]]
    /\ shardCount = [id \in SessionIdSet |-> 0]
    /\ sessionIds = <<>>
    /\ events = <<>>
    /\ decryptable = {}

(* ------------------------------ helpers -------------------------------- *)

\* faulty variant: createSession without its existence check
sessionAlreadyExists_NoCheck(sessionId) == FALSE

\* require(bytes(sessions[sessionId].name).length == 0, ...) of createSession
sessionAlreadyExists(sessionId) == sessions[sessionId].name # ""

\* bytes(sessions[sessionId].name).length > 0 of addShard and verifyShard
SessionExists(sessionId) == sessions[sessionId].name # ""

\* faulty variant: the lower bound of the threshold is not checked
validThreshold_NoLower(threshold, totalShards) == threshold <= totalShards

\* faulty variant: the upper bound of the threshold is not checked
validThreshold_NoUpper(threshold, totalShards) == threshold > 0

\* threshold > 0 && threshold <= totalShards
validThreshold(threshold, totalShards) ==
    threshold > 0 /\ threshold <= totalShards

\* faulty variant: <= in place of <
validShardIndex_Inclusive(sessionId, shardIndex) ==
    shardIndex >= 0 /\ shardIndex <= sessions[sessionId].totalShards

\* shardIndex >= 0 && shardIndex < sessions[sessionId].totalShards
validShardIndex(sessionId, shardIndex) ==
    shardIndex >= 0 /\ shardIndex < sessions[sessionId].totalShards

\* faulty variant: addShard without its require on the holder
slotOccupied_NoCheck(sessionId, shardIndex) == FALSE

\* sessionShards[sessionId][shardIndex].holder != address(0)
slotOccupied(sessionId, shardIndex) ==
    sessionShards[sessionId][shardIndex].holder # ZeroAddress

\* faulty variant: verifyShard without its require on isVerified
alreadyVerified_NoCheck(sessionId, shardIndex) == FALSE

\* sessionShards[sessionId][shardIndex].isVerified
alreadyVerified(sessionId, shardIndex) ==
    sessionShards[sessionId][shardIndex].isVerified

\* faulty variant: verifyShard without its require on the decoded value
isCandidate_NoCheck(sessionId, decodedValue) == TRUE

\* faulty variant: the candidates are cut to 32 bits before the comparison
isCandidate_Truncated(sessionId, decodedValue) ==
    \/ decodedValue = sessions[sessionId].publicValue1.low
    \/ decodedValue = sessions[sessionId].publicValue2.low

\* decodedValue == publicValue1 || decodedValue == publicValue2, the uint32
\* decodedValue being widened to 256 bits for the comparison
isCandidate(sessionId, decodedValue) ==
    \/ Uint256(0, decodedValue) = sessions[sessionId].publicValue1
    \/ Uint256(0, decodedValue) = sessions[sessionId].publicValue2

\* abi.decode(abiEncodedClearValue, (uint32)) reverts on a word of 2^32 or more
decodesAsUint32(word) == word.high = 0

\* the uint32 that abi.decode(abiEncodedClearValue, (uint32)) returns
abiDecodeUint32(word) == word.low

\* faulty variant: |= in place of ^=
RECURSIVE Xor_AsOr(_, _)
Xor_AsOr(a, b) ==
    IF a = 0 THEN b
    ELSE IF b = 0 THEN a
    ELSE (IF (a % 2) + (b % 2) > 0 THEN 1 ELSE 0)
         + (2 * Xor_AsOr(a \div 2, b \div 2))

\* bitwise exclusive-or of two unsigned integers (the ^= of combineShards)
RECURSIVE Xor(_, _)
Xor(a, b) ==
    IF a = 0 THEN b
    ELSE IF b = 0 THEN a
    ELSE (((a % 2) + (b % 2)) % 2) + (2 * Xor(a \div 2, b \div 2))

\* the loop of getVerifiedShardCount over the slots i .. total-1
RECURSIVE CountVerifiedFrom(_, _, _)
CountVerifiedFrom(shards, i, total) ==
    IF i >= total THEN 0
    ELSE (IF shards[i].isVerified THEN 1 ELSE 0)
         + CountVerifiedFrom(shards, i + 1, total)

\* getVerifiedShardCount, read from the given session and shard mappings
getVerifiedShardCount(sess, shardsOf, sessionId) ==
    CountVerifiedFrom(shardsOf[sessionId], 0, sess[sessionId].totalShards)

\* faulty variant: the loop assigns (=) where combineShards accumulates (^=)
RECURSIVE CombineFrom_Overwrite(_, _, _, _)
CombineFrom_Overwrite(shards, i, total, acc) ==
    IF i >= total THEN acc
    ELSE CombineFrom_Overwrite(shards, i + 1, total,
                     IF shards[i].isVerified
                     THEN ClearOf(shards[i].encryptedValue)
                     ELSE acc)

\* the loop of combineShards: combinedValue after the iterations
\* i .. total-1, entered with combinedValue = acc
RECURSIVE CombineFrom(_, _, _, _)
CombineFrom(shards, i, total, acc) ==
    IF i >= total THEN acc
    ELSE CombineFrom(shards, i + 1, total,
                     IF shards[i].isVerified
                     THEN Xor(acc, ClearOf(shards[i].encryptedValue))
                     ELSE acc)

combineShards(sess, shardsOf, sessionId) ==
    CombineFrom(shardsOf[sessionId], 0, sess[sessionId].totalShards, 0)

\* FHE.fromExternal accepts an input whose proof attributes it to the sender
fromExternalOk(inputProof, sender) == inputProof = sender

\* FHE.isInitialized
isInitialized(handle) == handle # NoHandle

\* a decryption proof is the oracle's signature over (handle, clear value);
\* the oracle signs only what a publicly decryptable handle decrypts to
InvalidProof == [handle |-> NoHandle, clear |-> Uint256(0, 0)]

DecryptionProofs ==
    {[handle |-> h, clear |-> Uint256(0, ClearOf(h))] : h \in decryptable}
        \cup {InvalidProof}

\* faulty variant: the signatures are checked against the clear value only,
\* not against the handle list
checkSignatures_AnyHandle(ct, clearValue, proof) ==
    /\ proof # InvalidProof
    /\ proof.clear = clearValue

\* faulty variant: the signatures are not checked
checkSignatures_NotChecked(ct, clearValue, proof) == TRUE

\* FHE.checkSignatures(cts, abiEncodedClearValue, decryptionProof)
checkSignatures(ct, clearValue, proof) ==
    /\ proof # InvalidProof
    /\ proof.handle = ct
    /\ proof.clear = clearValue

\* faulty variant: > in place of >=
thresholdReached_Strict(shardsOf, sessionId) ==
    getVerifiedShardCount(sessions, shardsOf, sessionId)
        > sessions[sessionId].threshold

\* faulty variant: the count is never compared with the threshold
thresholdReached_Never(shardsOf, sessionId) == FALSE

\* getVerifiedShardCount(sessionId) >= sessions[sessionId].threshold
thresholdReached(shardsOf, sessionId) ==
    getVerifiedShardCount(sessions, shardsOf, sessionId)
        >= sessions[sessionId].threshold

\* faulty variant: completeSession without its require
alreadyCompleted_NoGuard(sessionId) == FALSE

\* the condition the require of completeSession rejects
alreadyCompleted(sessionId) == sessions[sessionId].isComplete

\* the revert reason of a call that does not revert
NoRevert == ""

(* ----------------------------- operations ------------------------------ *)

\* the require that stops createSession, if any
createSessionRevert(sessionId, threshold, totalShards) ==
    IF sessionAlreadyExists(sessionId) THEN "Session already exists"
    ELSE IF ~validThreshold(threshold, totalShards) THEN "Invalid threshold"
    ELSE NoRevert

\* faulty variant: the id is put in front of the registry
createSession_Prepend(sessionId, name, threshold, totalShards, publicValue1, publicValue2, description, sender, now) ==
    IF createSessionRevert(sessionId, threshold, totalShards) # NoRevert
    THEN UNCHANGED vars
    ELSE
        /\ Len(events) < MaxEvents
        /\ sessions' = [sessions EXCEPT ![sessionId] =
               [name |-> name, threshold |-> threshold,
                totalShards |-> totalShards,
                publicValue1 |-> publicValue1, publicValue2 |-> publicValue2,
                description |-> description, creator |-> sender,
                timestamp |-> now, decryptedValue |-> 0, isComplete |-> FALSE]]
        /\ sessionIds' = <<sessionId>> \o sessionIds
        /\ events' = Append(events,
               [type |-> "SessionCreated", sessionId |-> sessionId,
                creator |-> sender])
        /\ UNCHANGED <<sessionShards, shardCount, decryptable>>

createSession(sessionId, name, threshold, totalShards, publicValue1, publicValue2, description, sender, now) ==
    IF createSessionRevert(sessionId, threshold, totalShards) # NoRevert
    THEN UNCHANGED vars
    ELSE
        /\ Len(events) < MaxEvents
        /\ sessions' = [sessions EXCEPT ![sessionId] =
               [name |-> name, threshold |-> threshold,
                totalShards |-> totalShards,
                publicValue1 |-> publicValue1, publicValue2 |-> publicValue2,
                description |-> description, creator |-> sender,
                timestamp |-> now, decryptedValue |-> 0, isComplete |-> FALSE]]
        /\ sessionIds' = Append(sessionIds, sessionId)
        /\ events' = Append(events,
               [type |-> "SessionCreated", sessionId |-> sessionId,
                creator |-> sender])
        /\ UNCHANGED <<sessionShards, shardCount, decryptable>>

\* the require (or library check) that stops addShard, if any
addShardRevert(sessionId, shardIndex, encryptedValue, inputProof, sender) ==
    IF ~SessionExists(sessionId) THEN "Session does not exist"
    ELSE IF ~validShardIndex(sessionId, shardIndex) THEN "Invalid shard index"
    ELSE IF slotOccupied(sessionId, shardIndex) THEN "Shard already exists"
    ELSE IF ~fromExternalOk(inputProof, sender) THEN "FHE.fromExternal reverted"
    ELSE IF ~isInitialized(encryptedValue) THEN "Invalid encrypted input"
    ELSE NoRevert

addShard(sessionId, shardIndex, encryptedValue, inputProof, sender) ==
    IF addShardRevert(sessionId, shardIndex, encryptedValue, inputProof, sender)
           # NoRevert
    THEN UNCHANGED vars
    ELSE
        /\ Len(events) < MaxEvents
        /\ sessionShards' = [sessionShards EXCEPT ![sessionId][shardIndex] =
               [encryptedValue |-> encryptedValue, holder |-> sender,
                isVerified |-> FALSE]]
        /\ decryptable' = decryptable \cup {encryptedValue}
        /\ shardCount' = [shardCount EXCEPT ![sessionId] = @ + 1]
        /\ events' = Append(events,
               [type |-> "ShardAdded", sessionId |-> sessionId,
                shardIndex |-> shardIndex, holder |-> sender])
        /\ UNCHANGED <<sessions, sessionIds>>

\* the shard mapping after sessionShards[sessionId][shardIndex].isVerified = true
markVerified(sessionId, shardIndex) ==
    [sessionShards EXCEPT ![sessionId][shardIndex].isVerified = TRUE]

\* faulty variant: completeSession stores the value but not the flag
completeSession_NoFlag(shardsOf, sessionId) ==
    [sessions EXCEPT
        ![sessionId].decryptedValue = combineShards(sessions, shardsOf, sessionId)]

\* the sessions mapping completeSession leaves, given the shard mapping
\* verifyShard has just written
completeSession(shardsOf, sessionId) ==
    [sessions EXCEPT
        ![sessionId].decryptedValue = combineShards(sessions, shardsOf, sessionId),
        ![sessionId].isComplete = TRUE]

\* the require (or library check) that stops verifyShard, if any; the last
\* one is the require of completeSession
verifyShardRevert(sessionId, shardIndex, clearValue, decryptionProof) ==
    IF ~SessionExists(sessionId) THEN "Session does not exist"
    ELSE IF ~validShardIndex(sessionId, shardIndex) THEN "Invalid shard index"
    ELSE IF alreadyVerified(sessionId, shardIndex) THEN "Shard already verified"
    ELSE IF ~checkSignatures(sessionShards[sessionId][shardIndex].encryptedValue,
                             clearValue, decryptionProof)
    THEN "FHE.checkSignatures reverted"
    ELSE IF ~decodesAsUint32(clearValue) THEN "abi.decode reverted"
    ELSE IF ~isCandidate(sessionId, abiDecodeUint32(clearValue))
    THEN "Invalid shard value"
    ELSE IF /\ thresholdReached(markVerified(sessionId, shardIndex), sessionId)
            /\ alreadyCompleted(sessionId)
    THEN "Session already completed"
    ELSE NoRevert

\* faulty variant: completeSession returns where it should revert, so the
\* writes verifyShard made before calling it stay
verifyShard_PartialWrite(sessionId, shardIndex, clearValue, decryptionProof) ==
    LET reason == verifyShardRevert(sessionId, shardIndex, clearValue,
                                    decryptionProof)
        shardsOf == markVerified(sessionId, shardIndex)
        verified == [type |-> "ShardVerified", sessionId |-> sessionId,
                     shardIndex |-> shardIndex]
    IN  IF reason = "Session already completed"
        THEN
            /\ Len(events) < MaxEvents
            /\ sessionShards' = shardsOf
            /\ events' = Append(events, verified)
            /\ UNCHANGED <<sessions, shardCount, sessionIds, decryptable>>
        ELSE IF reason # NoRevert
        THEN UNCHANGED vars
        ELSE IF thresholdReached(shardsOf, sessionId)
        THEN
            /\ Len(events) + 1 < MaxEvents
            /\ sessionShards' = shardsOf
            /\ sessions' = completeSession(shardsOf, sessionId)
            /\ events' = events \o <<verified,
                   [type |-> "SessionCompleted", sessionId |-> sessionId,
                    decryptedValue |->
                        combineShards(sessions, shardsOf, sessionId)]>>
            /\ UNCHANGED <<shardCount, sessionIds, decryptable>>
        ELSE
            /\ Len(events) < MaxEvents
            /\ sessionShards' = shardsOf
            /\ events' = Append(events, verified)
            /\ UNCHANGED <<sessions, shardCount, sessionIds, decryptable>>

verifyShard(sessionId, shardIndex, clearValue, decryptionProof) ==
    IF verifyShardRevert(sessionId, shardIndex, clearValue, decryptionProof)
           # NoRevert
    THEN UNCHANGED vars
    ELSE
        LET shardsOf == markVerified(sessionId, shardIndex)
            verified == [type |-> "ShardVerified", sessionId |-> sessionId,
                         shardIndex |-> shardIndex]
        IN  IF thresholdReached(shardsOf, sessionId)
            THEN
                /\ Len(events) + 1 < MaxEvents
                /\ sessionShards' = shardsOf
                /\ sessions' = completeSession(shardsOf, sessionId)
                /\ events' = events \o <<verified,
                       [type |-> "SessionCompleted", sessionId |-> sessionId,
                        decryptedValue |->
                            combineShards(sessions, shardsOf, sessionId)]>>
                /\ UNCHANGED <<shardCount, sessionIds, decryptable>>
            ELSE
                /\ Len(events) < MaxEvents
                /\ sessionShards' = shardsOf
                /\ events' = Append(events, verified)
                /\ UNCHANGED <<sessions, shardCount, sessionIds, decryptable>>

(* ------------------------------ queries -------------------------------- *)

\* the require that stops getSession, if any
getSessionRevert(sessionId) ==
    IF ~SessionExists(sessionId) THEN "Session does not exist" ELSE NoRevert

\* the tuple getSession returns
getSession(sessionId) ==
    LET session == sessions[sessionId]
    IN  <<session.name, session.threshold, session.totalShards,
          session.publicValue1, session.publicValue2, session.description,
          session.creator, session.timestamp, session.isComplete,
          session.decryptedValue>>

\* the require that stops getShard, if any
getShardRevert(sessionId, shardIndex) ==
    IF ~SessionExists(sessionId) THEN "Session does not exist"
    ELSE IF ~validShardIndex(sessionId, shardIndex) THEN "Invalid shard index"
    ELSE NoRevert

\* the tuple getShard returns
getShard(sessionId, shardIndex) ==
    LET shard == sessionShards[sessionId][shardIndex]
    IN  <<shard.encryptedValue, shard.holder, shard.isVerified>>

\* getVerifiedShardCount has no require: it returns a count for every id
getVerifiedShardCountRevert(sessionId) == NoRevert

getAllSessionIds == sessionIds

isAvailable == TRUE

\* a call of getSession, getShard, getVerifiedShardCount, getAllSessionIds
\* or isAvailable: view functions, which return what the operators above
\* give and write nothing
Query == UNCHANGED vars

(* ------------------------------- client -------------------------------- *)
(* The web client (src/frontend/web/src/App.tsx): the FHEVM initialisation *)
(* effect and the verify flow decryptShard, run against the contract.      *)

\* most initialize() calls in flight that are explored
MaxInitializeCalls == 2

VARIABLES
    isConnected,        \* useAccount().isConnected
    fhevmInitialized,   \* useFhevm().isInitialized
    fhevmInitializing,  \* useState(false)
    initializeCalls,    \* initialize() calls that have not settled yet
    transactionStatus,  \* useState({visible, status, message})
    decryptPc,          \* where the running decryptShard call stands
    decryptReturn       \* what the last decryptShard call returned

clientVars == <<isConnected, fhevmInitialized, fhevmInitializing, initializeCalls,
                transactionStatus, decryptPc, decryptReturn>>

HiddenStatus == [visible |-> FALSE, status |-> "pending", message |-> ""]

\* no decryptShard call is running
DecryptIdle == [at |-> "idle", sessionId |-> "", shardIndex |-> 0, handle |-> NoHandle]

\* no decryptShard call has returned yet
NoReturn == [kind |-> "none", value |-> 0, submitted |-> FALSE]

ClientInit ==
    /\ isConnected = FALSE
    /\ fhevmInitialized = FALSE
    /\ fhevmInitializing = FALSE
    /\ initializeCalls = 0
    /\ transactionStatus = HiddenStatus
    /\ decryptPc = DecryptIdle
    /\ decryptReturn = NoReturn

\* the wallet connects or disconnects
connectWallet == isConnected' = ~isConnected

\* faulty variant: the effect does not look at fhevmInitializing
initSkipped_NoInFlightCheck ==
    \/ ~isConnected
    \/ fhevmInitialized

\* the guards of initFhevmAfterConnection: true when the effect returns at once
initSkipped ==
    \/ ~isConnected
    \/ fhevmInitialized \/ fhevmInitializing

\* the effect initFhevmAfterConnection up to its await
initFhevmAfterConnection ==
    IF initSkipped
    THEN UNCHANGED <<fhevmInitializing, initializeCalls>>
    ELSE /\ initializeCalls < MaxInitializeCalls
         /\ fhevmInitializing' = TRUE
         /\ initializeCalls' = initializeCalls + 1

\* initialize() resolves: the hook reports isInitialized, the effect goes on
\* to its finally block
initializeResolved ==
    /\ initializeCalls > 0
    /\ initializeCalls' = initializeCalls - 1
    /\ fhevmInitialized' = TRUE
    /\ fhevmInitializing' = FALSE
    /\ UNCHANGED transactionStatus

\* initialize() throws: the catch block, then the finally block
initializeThrew ==
    /\ initializeCalls > 0
    /\ initializeCalls' = initializeCalls - 1
    /\ transactionStatus' = [visible |-> TRUE, status |-> "error",
                             message |-> "FHEVM initialization failed"]
    /\ fhevmInitializing' = FALSE
    /\ UNCHANGED fhevmInitialized

\* the setTimeout callbacks that hide the status banner
hideTransactionStatus ==
    /\ transactionStatus.visible
    /\ transactionStatus' = HiddenStatus

\* the words of the revert reasons of the contract
WordsOf(reason) ==
    CASE reason = "Session does not exist" -> <<"Session", "does", "not", "exist">>
      [] reason = "Invalid shard index" -> <<"Invalid", "shard", "index">>
      [] reason = "Shard already verified" -> <<"Shard", "already", "verified">>
      [] reason = "Invalid shard value" -> <<"Invalid", "shard", "value">>
      [] reason = "Session already completed" -> <<"Session", "already", "completed">>
      [] OTHER -> <<"FHE", "verification", "failed">>

\* e.message of the error a reverted call throws
ErrorMessage(reason) == <<"execution", "reverted:">> \o WordsOf(reason)

\* the text the catch block of decryptShard looks for
AlreadyVerifiedText == <<"Data", "already", "verified">>

\* e.message?.includes(text)
includes(message, text) ==
    \E k \in 1 .. Len(message) :
        /\ k + Len(text) - 1 <= Len(message)
        /\ SubSeq(message, k, k + Len(text) - 1) = text

\* the catch block of decryptShard
decryptShardCatch(reason, submitted) ==
    /\ transactionStatus' =
           IF includes(ErrorMessage(reason), AlreadyVerifiedText)
           THEN [visible |-> TRUE, status |-> "success",
                 message |-> "Shard is already verified"]
           ELSE [visible |-> TRUE, status |-> "error",
                 message |-> "Decryption failed"]
    /\ decryptReturn' = [kind |-> "null", value |-> 0, submitted |-> submitted]
    /\ decryptPc' = DecryptIdle

\* decryptShard up to its call of verifyDecryption: the wallet check, the
\* read of the stored record and the branch on its isVerified
decryptShard(sessionId, shardIndex) ==
    /\ decryptPc.at = "idle"
    /\ IF ~isConnected
       THEN /\ transactionStatus' = [visible |-> TRUE, status |-> "error",
                                     message |-> "Please connect wallet first"]
            /\ decryptReturn' = [kind |-> "null", value |-> 0, submitted |-> FALSE]
            /\ UNCHANGED decryptPc
       ELSE IF getShardRevert(sessionId, shardIndex) # NoRevert
       THEN decryptShardCatch(getShardRevert(sessionId, shardIndex), FALSE)
       ELSE IF getShard(sessionId, shardIndex)[3]
       THEN /\ transactionStatus' = [visible |-> TRUE, status |-> "success",
                                     message |-> "Shard already verified on-chain"]
            /\ decryptReturn' = [kind |-> "stored",
                                 value |-> sessions[sessionId].decryptedValue,
                                 submitted |-> FALSE]
            /\ UNCHANGED decryptPc
       ELSE /\ decryptPc' = [at |-> "verifying", sessionId |-> sessionId,
                             shardIndex |-> shardIndex,
                             handle |-> getShard(sessionId, shardIndex)[1]]
            /\ UNCHANGED <<transactionStatus, decryptReturn>>

\* Number(clearValue) of a word below 2^32
Number(word) == word.low

\* the public decryption the client obtains for a handle
publicDecrypt(handle) ==
    IF handle \in decryptable
    THEN [handle |-> handle, clear |-> Uint256(0, ClearOf(handle))]
    ELSE InvalidProof

\* the rest of decryptShard: verifyDecryption submits the verification to the
\* contract; the flow ends in the success path or in the catch block
decryptShardVerify ==
    /\ decryptPc.at = "verifying"
    /\ LET proof == publicDecrypt(decryptPc.handle)
           reason == verifyShardRevert(decryptPc.sessionId, decryptPc.shardIndex,
                                       proof.clear, proof)
       IN  /\ verifyShard(decryptPc.sessionId, decryptPc.shardIndex,
                          proof.clear, proof)
           /\ IF reason # NoRevert
              THEN decryptShardCatch(reason, TRUE)
              ELSE /\ transactionStatus' =
                          [visible |-> TRUE, status |-> "success",
                           message |-> "Shard decrypted successfully!"]
                   /\ decryptReturn' = [kind |-> "clear", value |-> Number(proof.clear),
                                        submitted |-> TRUE]
                   /\ decryptPc' = DecryptIdle

(* --------------------------- specification ----------------------------- *)

CreateSession ==
    \E sessionId \in SessionIdSet, name \in Names,
       threshold \in 0 .. MaxShards + 1, totalShards \in 0 .. MaxShards,
       pv \in PublicValuePairs, description \in Descriptions,
       sender \in Addresses, now \in BlockTimestamps :
        createSession(sessionId, name, threshold, totalShards, pv[1], pv[2],
                      description, sender, now)

AddShard ==
    \E sessionId \in SessionIdSet, shardIndex \in ShardIndexes,
       encryptedValue \in Handles \cup {NoHandle},
       inputProof \in ProofOwners, sender \in Addresses :
        addShard(sessionId, shardIndex, encryptedValue, inputProof, sender)

VerifyShard ==
    \E sessionId \in SessionIdSet, shardIndex \in ShardIndexes,
       clearValue \in ClearValues, decryptionProof \in DecryptionProofs :
        verifyShard(sessionId, shardIndex, clearValue, decryptionProof)

Next ==
    \/ CreateSession /\ UNCHANGED clientVars
    \/ AddShard /\ UNCHANGED clientVars
    \/ VerifyShard /\ UNCHANGED clientVars
    \/ Query /\ UNCHANGED clientVars

\* the contract as deployed and the client as mounted
InitSystem == Init /\ ClientInit

Spec == InitSystem /\ [][Next]_vars

(* ------------------- specification with fair scheduling ---------------- *)

\* how many SessionCreated and ShardAdded events the log holds
NumSetupEvents(log) ==
    Cardinality({k \in 1 .. Len(log) :
                    log[k].type \in {"SessionCreated", "ShardAdded"}})

\* createSession and addShard are explored only while the bounded log keeps
\* room for the verifications of every slot and for the completion
RoomForVerification == NumSetupEvents(events) < MaxEvents - MaxShards - 1

NextFair ==
    \/ RoomForVerification /\ CreateSession /\ UNCHANGED clientVars
    \/ RoomForVerification /\ AddShard /\ UNCHANGED clientVars
    \/ VerifyShard /\ UNCHANGED clientVars
    \/ Query /\ UNCHANGED clientVars

\* transactions are serialized and a verifyShard call that would be accepted
\* is eventually submitted and mined
FairSpec ==
    /\ InitSystem /\ [][NextFair]_vars
    /\ WF_vars(VerifyShard /\ UNCHANGED clientVars)

(* --------------------- specification with two ids ---------------------- *)

\* the ids of two sessions, each with one slot and threshold 1
RegistryIdSet == {"s1", "s2"}

InitRegistry ==
    /\ sessions = [id \in RegistryIdSet |-> EmptySession]
    /\ sessionShards = [id \in RegistryIdSet |-> [i \in ShardIndexes |-> EmptyShard]]
    /\ shardCount = [id \in RegistryIdSet |-> 0]
    /\ sessionIds = <<>>
    /\ events = <<>>
    /\ decryptable = {}
    /\ ClientInit

CreateSessionOfTwo ==
    \E sessionId \in RegistryIdSet, name \in Names, totalShards \in 0 .. 1,
       sender \in Addresses, now \in BlockTimestamps :
        createSession(sessionId, name, 1, totalShards, Uint256(0, 7),
                      Uint256(0, 42), "d", sender, now)

AddShardOfTwo ==
    \E sessionId \in RegistryIdSet, shardIndex \in 0 .. 1, sender \in Addresses :
        addShard(sessionId, shardIndex, 1, sender, sender)

VerifyShardOfTwo ==
    \E sessionId \in RegistryIdSet, decryptionProof \in DecryptionProofs :
        verifyShard(sessionId, 0, Uint256(0, 7), decryptionProof)

NextRegistry ==
    \/ CreateSessionOfTwo /\ UNCHANGED clientVars
    \/ AddShardOfTwo /\ UNCHANGED clientVars
    \/ VerifyShardOfTwo /\ UNCHANGED clientVars
    \/ Query /\ UNCHANGED clientVars

RegistrySpec == InitRegistry /\ [][NextRegistry]_vars

(* ------------------ specification with the web client ------------------ *)

CreateSessionOfClient ==
    \E threshold \in 1 .. 2, sender \in Addresses, now \in BlockTimestamps :
        createSession("s1", "n", threshold, 2, Uint256(0, 7), Uint256(0, 42),
                      "d", sender, now)

AddShardOfClient ==
    \E shardIndex \in 0 .. 1, encryptedValue \in Handles, sender \in Addresses :
        addShard("s1", shardIndex, encryptedValue, sender, sender)

\* a verification submitted by somebody else than this client
VerifyShardOfOthers ==
    \E shardIndex \in 0 .. 1, decryptionProof \in DecryptionProofs :
        verifyShard("s1", shardIndex, decryptionProof.clear, decryptionProof)

ConnectWallet ==
    /\ connectWallet
    /\ UNCHANGED <<fhevmInitialized, fhevmInitializing, initializeCalls,
                   transactionStatus, decryptPc, decryptReturn>>
    /\ UNCHANGED vars

InitFhevmAfterConnection ==
    /\ initFhevmAfterConnection
    /\ UNCHANGED <<isConnected, fhevmInitialized, transactionStatus, decryptPc,
                   decryptReturn>>
    /\ UNCHANGED vars

InitializeResolved ==
    /\ initializeResolved
    /\ UNCHANGED <<isConnected, decryptPc, decryptReturn>>
    /\ UNCHANGED vars

InitializeThrew ==
    /\ initializeThrew
    /\ UNCHANGED <<isConnected, decryptPc, decryptReturn>>
    /\ UNCHANGED vars

HideTransactionStatus ==
    /\ hideTransactionStatus
    /\ UNCHANGED <<isConnected, fhevmInitialized, fhevmInitializing,
                   initializeCalls, decryptPc, decryptReturn>>
    /\ UNCHANGED vars

DecryptShard ==
    \E sessionId \in SessionIdSet, shardIndex \in 0 .. 1 :
        /\ decryptShard(sessionId, shardIndex)
        /\ UNCHANGED <<isConnected, fhevmInitialized, fhevmInitializing,
                       initializeCalls>>
        /\ UNCHANGED vars

DecryptShardVerify ==
    /\ decryptShardVerify
    /\ UNCHANGED <<isConnected, fhevmInitialized, fhevmInitializing,
                   initializeCalls>>

NextClient ==
    \/ CreateSessionOfClient /\ UNCHANGED clientVars
    \/ AddShardOfClient /\ UNCHANGED clientVars
    \/ VerifyShardOfOthers /\ UNCHANGED clientVars
    \/ ConnectWallet
    \/ InitFhevmAfterConnection
    \/ InitializeResolved
    \/ InitializeThrew
    \/ HideTransactionStatus
    \/ DecryptShard
    \/ DecryptShardVerify

ClientSpec == InitSystem /\ [][NextClient]_<<vars, clientVars>>

(* --------------- specification with candidates of 2^32 or more --------- *)

\* candidate pairs with none, one and both candidates of 2^32 or more
WidePublicValuePairs ==
    {<<Uint256(0, 7), Uint256(0, 42)>>, <<Uint256(1, 7), Uint256(0, 42)>>,
     <<Uint256(1, 7), Uint256(1, 42)>>}

\* the words callers put into abiEncodedClearValue
WideClearValues == ClearValues \cup {Uint256(1, 7)}

CreateSessionWide ==
    \E threshold \in 1 .. 2, pv \in WidePublicValuePairs, sender \in Addresses,
       now \in BlockTimestamps :
        createSession("s1", "n", threshold, 2, pv[1], pv[2], "d", sender, now)

AddShardWide ==
    \E shardIndex \in 0 .. 1, encryptedValue \in Handles, sender \in Addresses :
        addShard("s1", shardIndex, encryptedValue, sender, sender)

VerifyShardWide ==
    \E shardIndex \in 0 .. 1, clearValue \in WideClearValues,
       decryptionProof \in DecryptionProofs :
        verifyShard("s1", shardIndex, clearValue, decryptionProof)

NextWide ==
    \/ CreateSessionWide /\ UNCHANGED clientVars
    \/ AddShardWide /\ UNCHANGED clientVars
    \/ VerifyShardWide /\ UNCHANGED clientVars
    \/ Query /\ UNCHANGED clientVars

WidthSpec == InitSystem /\ [][NextWide]_vars

(* ----------------------- vocabulary of the claims ---------------------- *)

\* the ids the registry holds
RegisteredIds == {sessionIds[k] : k \in 1 .. Len(sessionIds)}

\* how many events of the log satisfy a test
NumEvents(log, Test(_)) == Cardinality({k \in 1 .. Len(log) : Test(log[k])})

NumSessionCompleted(log, id) ==
    LET Test(e) == e.type = "SessionCompleted" /\ e.sessionId = id
    IN  NumEvents(log, Test)

NumShardAdded(log, id, i) ==
    LET Test(e) == e.type = "ShardAdded" /\ e.sessionId = id /\ e.shardIndex = i
    IN  NumEvents(log, Test)

NumShardVerified(log, id, i) ==
    LET Test(e) == e.type = "ShardVerified" /\ e.sessionId = id /\ e.shardIndex = i
    IN  NumEvents(log, Test)

\* the slots of a session that hold a verified shard
VerifiedSlots(id) ==
    {i \in ShardIndexes : i < sessions[id].totalShards
                          /\ sessionShards[id][i].isVerified}

\* the calls a step may be
CreateSessionCalls ==
    [sessionId : SessionIdSet, name : Names, threshold : 0 .. MaxShards + 1,
     totalShards : 0 .. MaxShards, pv : PublicValuePairs,
     description : Descriptions, sender : Addresses, now : BlockTimestamps]

IsCreateSession(c) ==
    createSession(c.sessionId, c.name, c.threshold, c.totalShards, c.pv[1],
                  c.pv[2], c.description, c.sender, c.now)

AddShardCalls ==
    [sessionId : SessionIdSet, shardIndex : ShardIndexes,
     encryptedValue : Handles \cup {NoHandle}, inputProof : ProofOwners,
     sender : Addresses]

IsAddShard(c) ==
    addShard(c.sessionId, c.shardIndex, c.encryptedValue, c.inputProof, c.sender)

VerifyShardCalls ==
    [sessionId : SessionIdSet, shardIndex : ShardIndexes,
     clearValue : ClearValues, decryptionProof : DecryptionProofs]

IsVerifyShard(c) ==
    verifyShard(c.sessionId, c.shardIndex, c.clearValue, c.decryptionProof)

(* ------------------------------- claims -------------------------------- *)

\* C1: a session completes exactly once, in the very verifyShard step in
\* which its verified-shard count becomes equal to threshold; from then on
\* the reconstructed value stays and no second SessionCompleted is emitted.
C1_CompletesOnceAtThreshold ==
    [][\A id \in SessionIdSet :
          LET before == getVerifiedShardCount(sessions, sessionShards, id)
              after == getVerifiedShardCount(sessions', sessionShards', id)
              completes == ~sessions[id].isComplete /\ sessions'[id].isComplete
          IN  /\ completes <=> (after # before /\ after = sessions'[id].threshold)
              /\ completes =>
                     /\ \E c \in VerifyShardCalls : IsVerifyShard(c)
                     /\ NumSessionCompleted(events', id) = 1
              /\ sessions[id].isComplete =>
                     /\ sessions'[id].isComplete
                     /\ sessions'[id].decryptedValue = sessions[id].decryptedValue
                     /\ NumSessionCompleted(events', id) = 1
              /\ ~sessions'[id].isComplete =>
                     NumSessionCompleted(events', id) = 0]_vars

\* C1 witness: a completed session that still has an unverified shard whose
\* verification would reach the threshold again
C1_Witness ==
    \E c \in VerifyShardCalls :
        /\ sessions[c.sessionId].isComplete
        /\ NumSessionCompleted(events, c.sessionId) = 1
        /\ sessionShards[c.sessionId][c.shardIndex].holder # ZeroAddress
        /\ ~sessionShards[c.sessionId][c.shardIndex].isVerified
        /\ c.decryptionProof # InvalidProof
        /\ verifyShardRevert(c.sessionId, c.shardIndex, c.clearValue,
                             c.decryptionProof) = "Session already completed"

\* C2: a shard slot is written at most once: every addShard on an occupied
\* slot reverts with "Shard already exists" (a reverting call changes
\* nothing), so the stored shard is the one its single ShardAdded announced.
C2_SlotWriteOnce ==
    \A id \in SessionIdSet, i \in ShardIndexes :
        /\ NumShardAdded(events, id, i) <= 1
        /\ (sessionShards[id][i].holder # ZeroAddress)
               <=> (NumShardAdded(events, id, i) = 1)
        /\ sessionShards[id][i].holder # ZeroAddress =>
               \A c \in AddShardCalls :
                   (c.sessionId = id /\ c.shardIndex = i) =>
                       addShardRevert(c.sessionId, c.shardIndex, c.encryptedValue,
                                      c.inputProof, c.sender)
                           = "Shard already exists"

\* C2 witness: an occupied slot on which a well-formed addShard is attempted
C2_Witness ==
    \E c \in AddShardCalls :
        /\ sessionShards[c.sessionId][c.shardIndex].holder # ZeroAddress
        /\ c.inputProof = c.sender
        /\ c.encryptedValue # NoHandle
        /\ c.encryptedValue # sessionShards[c.sessionId][c.shardIndex].encryptedValue

\* C3: a shard is verified at most once: every verifyShard on a verified
\* shard reverts with "Shard already verified", so it neither counts again
\* nor completes the session.
C3_VerifiedOnce ==
    \A id \in SessionIdSet, i \in ShardIndexes :
        /\ NumShardVerified(events, id, i) <= 1
        /\ sessionShards[id][i].isVerified
               <=> (NumShardVerified(events, id, i) = 1)
        /\ sessionShards[id][i].isVerified =>
               \A c \in VerifyShardCalls :
                   (c.sessionId = id /\ c.shardIndex = i) =>
                       verifyShardRevert(c.sessionId, c.shardIndex, c.clearValue,
                                         c.decryptionProof)
                           = "Shard already verified"

\* C3 witness: a verified shard of a session that is not yet complete, for
\* which the caller holds a valid proof
C3_Witness ==
    \E c \in VerifyShardCalls :
        /\ sessionShards[c.sessionId][c.shardIndex].isVerified
        /\ ~sessions[c.sessionId].isComplete
        /\ checkSignatures(sessionShards[c.sessionId][c.shardIndex].encryptedValue,
                           c.clearValue, c.decryptionProof)

\* the proof of a verifyShard call binds its clear value to the ciphertext
\* stored at the addressed slot of an existing session
ProofFitsSlot(c) ==
    /\ sessions[c.sessionId].name # ""
    /\ c.shardIndex < sessions[c.sessionId].totalShards
    /\ c.decryptionProof # InvalidProof
    /\ c.decryptionProof.handle
           = sessionShards[c.sessionId][c.shardIndex].encryptedValue
    /\ c.decryptionProof.clear = c.clearValue

\* C4: a verifyShard whose proof is valid but whose clear value is neither
\* candidate reverts with "Invalid shard value"; the shard is unverified.
C4_NonCandidateRejected ==
    \A c \in VerifyShardCalls :
        (/\ ProofFitsSlot(c)
         /\ c.clearValue # sessions[c.sessionId].publicValue1
         /\ c.clearValue # sessions[c.sessionId].publicValue2)
            => /\ verifyShardRevert(c.sessionId, c.shardIndex, c.clearValue,
                                    c.decryptionProof) = "Invalid shard value"
               /\ ~sessionShards[c.sessionId][c.shardIndex].isVerified

\* C4 witness: a shard whose clear value is no candidate of its session,
\* with a valid proof at hand
C4_Witness ==
    \E c \in VerifyShardCalls :
        /\ ProofFitsSlot(c)
        /\ c.clearValue # sessions[c.sessionId].publicValue1
        /\ c.clearValue # sessions[c.sessionId].publicValue2

\* C5 (as claimed): createSession with an id the registry already holds
\* reverts with "Session already exists", whatever the names.
C5_ExistingIdRejected ==
    \A c \in CreateSessionCalls :
        c.sessionId \in RegisteredIds =>
            createSessionRevert(c.sessionId, c.threshold, c.totalShards)
                = "Session already exists"

\* C6 (as claimed): createSession with threshold = 0 or threshold >
\* totalShards reverts with "Invalid threshold".
C6_InvalidThresholdAlways ==
    \A c \in CreateSessionCalls :
        (c.threshold = 0 \/ c.threshold > c.totalShards) =>
            createSessionRevert(c.sessionId, c.threshold, c.totalShards)
                = "Invalid threshold"

\* C6 (amended): createSession with threshold = 0 or threshold > totalShards
\* always reverts; the reason is "Invalid threshold" unless a session with a
\* non-empty name is stored under the id, which is rejected first with
\* "Session already exists".
C6_InvalidThresholdRejected ==
    \A c \in CreateSessionCalls :
        (c.threshold = 0 \/ c.threshold > c.totalShards) =>
            createSessionRevert(c.sessionId, c.threshold, c.totalShards)
                = (IF sessions[c.sessionId].name # ""
                   THEN "Session already exists" ELSE "Invalid threshold")

\* C6 witness: sessions were created, one under an empty name, and a call
\* with threshold > totalShards is at hand for a stored and for a free id
C6_Witness ==
    /\ Len(sessionIds) >= 2
    /\ \E c \in CreateSessionCalls :
           /\ c.threshold > c.totalShards
           /\ sessions[c.sessionId].name # ""

\* C7: every session of the registry has 1 <= threshold <= totalShards.
C7_ThresholdInRange ==
    \A id \in RegisteredIds :
        /\ 1 <= sessions[id].threshold
        /\ sessions[id].threshold <= sessions[id].totalShards

\* C7 witness: a registered session whose threshold equals its totalShards,
\* the largest a caller may pass
C7_Witness ==
    \E id \in RegisteredIds :
        /\ sessions[id].threshold = sessions[id].totalShards
        /\ sessions[id].totalShards = MaxShards

\* C8 (as claimed): no step changes threshold, totalShards, the candidates
\* or the creator of a session the registry holds.
C8_SessionParametersFixed ==
    [][\A id \in RegisteredIds :
          /\ sessions'[id].threshold = sessions[id].threshold
          /\ sessions'[id].totalShards = sessions[id].totalShards
          /\ sessions'[id].publicValue1 = sessions[id].publicValue1
          /\ sessions'[id].publicValue2 = sessions[id].publicValue2
          /\ sessions'[id].creator = sessions[id].creator]_vars

\* C9: isComplete and isVerified never go from true back to false, and a
\* created shard is never deleted (its slot keeps its holder and ciphertext).
C9_FlagsMonotonic ==
    [][\A id \in SessionIdSet :
          /\ sessions[id].isComplete => sessions'[id].isComplete
          /\ \A i \in ShardIndexes :
                 /\ sessionShards[id][i].isVerified
                        => sessionShards'[id][i].isVerified
                 /\ sessionShards[id][i].holder # ZeroAddress
                        => /\ sessionShards'[id][i].holder
                                  = sessionShards[id][i].holder
                           /\ sessionShards'[id][i].encryptedValue
                                  = sessionShards[id][i].encryptedValue]_vars

\* C9 witness: a completed session with a verified shard, on whose id
\* createSession is called again
C9_Witness ==
    \E c \in CreateSessionCalls, i \in ShardIndexes :
        /\ sessions[c.sessionId].isComplete
        /\ sessionShards[c.sessionId][i].isVerified
        /\ c.threshold > 0 /\ c.threshold <= c.totalShards

\* the bits of an unsigned integer below 2^8
BitsOf(n) == {k \in 0 .. 7 : (n \div (2 ^ k)) % 2 = 1}

RECURSIVE ValueOfBits(_)
ValueOfBits(bits) ==
    IF bits = {} THEN 0
    ELSE LET k == CHOOSE b \in bits : TRUE
         IN  (2 ^ k) + ValueOfBits(bits \ {k})

\* the bits set in an odd number of the clear values of the given slots
OddBits(id, slots) ==
    {k \in 0 .. 7 :
        Cardinality({i \in slots :
            k \in BitsOf(ClearOf(sessionShards[id][i].encryptedValue))}) % 2 = 1}

\* the shards of the scenario: clear values 7, 42, 7 verified
ScenarioShards ==
    [i \in 0 .. 2 |->
        [encryptedValue |-> IF i = 1 THEN 2 ELSE 1, holder |-> "a1",
         isVerified |-> TRUE]]

\* C10: the reconstructed value of a completed session is the bitwise XOR of
\* the clear values of exactly its verified shards, and it is the value that
\* SessionCompleted announced; verified values 7, 42, 7 combine to 42.
C10_ReconstructedIsXor ==
    /\ \A id \in SessionIdSet :
           sessions[id].isComplete =>
               /\ sessions[id].decryptedValue
                      = ValueOfBits(OddBits(id, VerifiedSlots(id)))
               /\ \A k \in 1 .. Len(events) :
                      (events[k].type = "SessionCompleted"
                       /\ events[k].sessionId = id)
                          => events[k].decryptedValue = sessions[id].decryptedValue
    /\ CombineFrom(ScenarioShards, 0, 3, 0) = 42

\* C10 witness: a session completed from two verified shards with the clear
\* values 7 and 42
C10_Witness ==
    \E id \in SessionIdSet :
        /\ sessions[id].isComplete
        /\ Cardinality(VerifiedSlots(id)) = 2
        /\ sessions[id].decryptedValue = 45

\* the orders in which the slots of a set can be taken
OrdersOf(slots) ==
    {order \in [1 .. Cardinality(slots) -> slots] :
        \A a, b \in 1 .. Cardinality(slots) : a # b => order[a] # order[b]}

\* the clear values of the shards of a session XOR-ed in the given order
RECURSIVE XorInOrder(_, _)
XorInOrder(id, order) ==
    IF order = <<>> THEN 0
    ELSE Xor(XorInOrder(id, SubSeq(order, 1, Len(order) - 1)),
             ClearOf(sessionShards[id][order[Len(order)]].encryptedValue))

\* the slots of a session in the order in which their shards were verified
RECURSIVE VerifiedOrder(_, _)
VerifiedOrder(log, id) ==
    IF log = <<>> THEN <<>>
    ELSE LET rest == VerifiedOrder(SubSeq(log, 1, Len(log) - 1), id)
             e == log[Len(log)]
         IN  IF e.type = "ShardVerified" /\ e.sessionId = id
             THEN Append(rest, e.shardIndex) ELSE rest

\* C11: the reconstructed value of a completed session does not depend on
\* the order of the verifications: it is the XOR of the verified clear
\* values taken in the order the shards were verified, and in every other
\* order of the same verified set.
C11_OrderIndependent ==
    \A id \in SessionIdSet :
        sessions[id].isComplete =>
            /\ VerifiedOrder(events, id) \in OrdersOf(VerifiedSlots(id))
            /\ \A order \in OrdersOf(VerifiedSlots(id)) :
                   XorInOrder(id, order) = sessions[id].decryptedValue

\* C11 witness: a session completed from shards with different clear values
\* that were verified against the slot order (slot 1 before slot 0)
C11_Witness ==
    \E id \in SessionIdSet :
        /\ sessions[id].isComplete
        /\ VerifiedOrder(events, id) = <<1, 0>>
        /\ ClearOf(sessionShards[id][0].encryptedValue)
               # ClearOf(sessionShards[id][1].encryptedValue)

\* C12: a createSession, addShard or verifyShard call that fails leaves
\* sessions, shards, shard counts, registry and event log as they were,
\* also when verifyShard fails after the proof check (in the candidate test
\* or inside completeSession): a step that changes any of them is the step
\* of no failing call.  The state being the same, every call that was
\* acceptable before the failed call is acceptable after it.
C12_FailureChangesNothing ==
    [][\/ UNCHANGED vars
       \/ /\ \A c \in CreateSessionCalls :
                 createSessionRevert(c.sessionId, c.threshold, c.totalShards)
                     # NoRevert => ~IsCreateSession(c)
          /\ \A c \in AddShardCalls :
                 addShardRevert(c.sessionId, c.shardIndex, c.encryptedValue,
                                c.inputProof, c.sender) # NoRevert
                     => ~IsAddShard(c)
          /\ \A c \in VerifyShardCalls :
                 verifyShardRevert(c.sessionId, c.shardIndex, c.clearValue,
                                   c.decryptionProof) # NoRevert
                     => ~IsVerifyShard(c)]_vars

\* C12 witness: a completed session for which a verifyShard that passes the
\* proof check and the candidate test fails inside completeSession
C12_Witness ==
    \E c \in VerifyShardCalls :
        /\ checkSignatures(
               sessionShards[c.sessionId][c.shardIndex].encryptedValue,
               c.clearValue, c.decryptionProof)
        /\ c.clearValue \in {sessions[c.sessionId].publicValue1,
                            sessions[c.sessionId].publicValue2}
        /\ ~sessionShards[c.sessionId][c.shardIndex].isVerified
        /\ sessions[c.sessionId].isComplete
        /\ verifyShardRevert(c.sessionId, c.shardIndex, c.clearValue,
                             c.decryptionProof) # NoRevert

\* C13 (as claimed): verifyShard on a valid index of an existing session
\* whose slot holds no shard fails with the reason of a missing shard,
\* whatever clear value and proof are supplied.
C13_EmptySlotShardNotFound ==
    \A c \in VerifyShardCalls :
        (/\ sessions[c.sessionId].name # ""
         /\ c.shardIndex < sessions[c.sessionId].totalShards
         /\ sessionShards[c.sessionId][c.shardIndex].holder = ZeroAddress)
            => verifyShardRevert(c.sessionId, c.shardIndex, c.clearValue,
                                 c.decryptionProof) = "Shard not found"

\* C14 (as claimed): a verifyShard with a valid proof and a candidate value
\* on a not yet verified shard of a complete session is accepted.
C14_VerifyAfterCompleteSucceeds ==
    \A c \in VerifyShardCalls :
        (/\ sessions[c.sessionId].isComplete
         /\ ProofFitsSlot(c)
         /\ ~sessionShards[c.sessionId][c.shardIndex].isVerified
         /\ \/ c.clearValue = sessions[c.sessionId].publicValue1
            \/ c.clearValue = sessions[c.sessionId].publicValue2)
            => verifyShardRevert(c.sessionId, c.shardIndex, c.clearValue,
                                 c.decryptionProof) = NoRevert

\* the slots of a session that hold a shard whose clear value is one of the
\* two candidates
CandidateSlots(id) ==
    {i \in ShardIndexes :
        /\ i < sessions[id].totalShards
        /\ sessionShards[id][i].holder # ZeroAddress
        /\ Uint256(0, ClearOf(sessionShards[id][i].encryptedValue))
               \in {sessions[id].publicValue1, sessions[id].publicValue2}}

\* C15: once a session holds at least threshold shards whose clear values
\* are candidates, and the verifyShard calls with their valid proofs are
\* fairly scheduled, the session eventually becomes complete.
C15_EventuallyComplete ==
    \A id \in SessionIdSet :
        (/\ sessions[id].name # ""
         /\ Cardinality(CandidateSlots(id)) >= sessions[id].threshold)
            ~> sessions[id].isComplete

\* C15 witness: a session completed by the verification of as many shards
\* as the largest threshold, all the shards it holds
C15_Witness ==
    \E id \in SessionIdSet :
        /\ sessions[id].isComplete
        /\ sessions[id].threshold = MaxShards
        /\ Cardinality(CandidateSlots(id)) = MaxShards
        /\ Cardinality(VerifiedSlots(id)) = MaxShards

\* the reasons with which addShard rejects a ciphertext or its input proof
InvalidCiphertextReasons == {"FHE.fromExternal reverted", "Invalid encrypted input"}

\* C16: addShard is accepted exactly when the session exists, the index is
\* below totalShards, the slot is empty and the ciphertext and its input
\* proof pass the external check; otherwise it fails with the reason of the
\* first of these that does not hold.  An accepted call stores the shard
\* with holder = submitter and isVerified = false and counts it.
C16_AddShardChecks ==
    /\ [](\A c \in AddShardCalls :
            LET reason == addShardRevert(c.sessionId, c.shardIndex,
                              c.encryptedValue, c.inputProof, c.sender)
                exists == sessions[c.sessionId].name # ""
                inRange == c.shardIndex < sessions[c.sessionId].totalShards
                empty == sessionShards[c.sessionId][c.shardIndex].holder
                             = ZeroAddress
                sound == c.inputProof = c.sender /\ c.encryptedValue # NoHandle
            IN  /\ reason = NoRevert <=> (exists /\ inRange /\ empty /\ sound)
                /\ reason = NoRevert => c.sessionId \in RegisteredIds
                /\ ~exists => reason = "Session does not exist"
                /\ (exists /\ ~inRange) => reason = "Invalid shard index"
                /\ (exists /\ inRange /\ ~empty) => reason = "Shard already exists"
                /\ (exists /\ inRange /\ empty /\ ~sound)
                       => reason \in InvalidCiphertextReasons)
    /\ [][\/ UNCHANGED vars
          \/ \A c \in AddShardCalls :
                 (/\ addShardRevert(c.sessionId, c.shardIndex, c.encryptedValue,
                                    c.inputProof, c.sender) = NoRevert
                  /\ IsAddShard(c))
                     => /\ sessionShards'[c.sessionId][c.shardIndex]
                               = [encryptedValue |-> c.encryptedValue,
                                  holder |-> c.sender, isVerified |-> FALSE]
                        /\ shardCount'[c.sessionId] = shardCount[c.sessionId] + 1
                        /\ \A i \in ShardIndexes \ {c.shardIndex} :
                               sessionShards'[c.sessionId][i]
                                   = sessionShards[c.sessionId][i]]_vars

\* C16 witness: a session with a shard stored by its submitter, unverified,
\* a free slot next to it, and a call with an unsound input proof at hand
C16_Witness ==
    \E c \in AddShardCalls :
        /\ sessions[c.sessionId].name # ""
        /\ c.shardIndex = 1
        /\ c.shardIndex < sessions[c.sessionId].totalShards
        /\ sessionShards[c.sessionId][1].holder = ZeroAddress
        /\ sessionShards[c.sessionId][0].holder = c.sender
        /\ ~sessionShards[c.sessionId][0].isVerified
        /\ shardCount[c.sessionId] = 1
        /\ c.inputProof # c.sender

\* C17 (as claimed): getSession, getShard and getVerifiedShardCount fail
\* with the reason of a missing session for an id under which no session
\* is stored, and getShard rejects an index that is out of range.
C17_QueriesRejectUnknownId ==
    \A id \in SessionIdSet, i \in ShardIndexes :
        /\ id \notin RegisteredIds =>
               /\ getSessionRevert(id) = "Session does not exist"
               /\ getShardRevert(id, i) = "Session does not exist"
               /\ getVerifiedShardCountRevert(id) = "Session does not exist"
        /\ (sessions[id].name # "" /\ i >= sessions[id].totalShards)
               => getShardRevert(id, i) = "Invalid shard index"

\* C18: the reconstructed value of a session is present only if the session
\* is complete: while isComplete is false decryptedValue is the default 0,
\* and the only step that writes it is the one that completes the session.
C18_ValueOnlyWhenComplete ==
    /\ [](\A id \in SessionIdSet :
            ~sessions[id].isComplete => sessions[id].decryptedValue = 0)
    /\ [][\A id \in SessionIdSet :
            sessions'[id].decryptedValue # sessions[id].decryptedValue
                => /\ ~sessions[id].isComplete
                   /\ sessions'[id].isComplete
                   /\ sessions'[id].decryptedValue
                          = combineShards(sessions', sessionShards', id)]_vars

\* C18 witness: a session that is not complete although one of its shards,
\* with a clear value other than 0, is verified
C18_Witness ==
    \E id \in SessionIdSet, i \in ShardIndexes :
        /\ ~sessions[id].isComplete
        /\ sessions[id].decryptedValue = 0
        /\ sessionShards[id][i].isVerified
        /\ ClearOf(sessionShards[id][i].encryptedValue) # 0

\* the reasons with which verifyShard stops before it checks the proof
BeforeProofCheckReasons ==
    {"Session does not exist", "Invalid shard index", "Shard already verified"}

\* C19: verifyShard lets a (clear value, proof) pair past the proof check
\* only if the proof binds that clear value to the ciphertext handle stored
\* at the addressed slot; the proof of a shard with another handle is
\* rejected by the proof check.
C19_ProofBoundToStoredHandle ==
    \A c \in VerifyShardCalls :
        LET reason == verifyShardRevert(c.sessionId, c.shardIndex,
                                        c.clearValue, c.decryptionProof)
            stored == sessionShards[c.sessionId][c.shardIndex].encryptedValue
        IN  /\ reason \notin BeforeProofCheckReasons
                      \cup {"FHE.checkSignatures reverted"}
                   => /\ c.decryptionProof # InvalidProof
                      /\ c.decryptionProof.handle = stored
                      /\ c.decryptionProof.clear = c.clearValue
            /\ (/\ reason \notin BeforeProofCheckReasons
                /\ c.decryptionProof.handle # stored)
                   => reason = "FHE.checkSignatures reverted"

\* C19 witness: two shards with different ciphertext handles, and a call
\* that presents for the unverified one the proof and clear value of the
\* other
C19_Witness ==
    \E c \in VerifyShardCalls, j \in ShardIndexes :
        /\ sessions[c.sessionId].name # ""
        /\ c.shardIndex < sessions[c.sessionId].totalShards
        /\ ~sessionShards[c.sessionId][c.shardIndex].isVerified
        /\ sessionShards[c.sessionId][c.shardIndex].encryptedValue # NoHandle
        /\ j # c.shardIndex
        /\ sessionShards[c.sessionId][j].encryptedValue # NoHandle
        /\ sessionShards[c.sessionId][j].encryptedValue
               # sessionShards[c.sessionId][c.shardIndex].encryptedValue
        /\ c.decryptionProof.handle = sessionShards[c.sessionId][j].encryptedValue
        /\ c.decryptionProof.clear = c.clearValue
        /\ c.decryptionProof # InvalidProof

\* the ids of the SessionCreated events of a log, oldest first
RECURSIVE CreatedOrder(_)
CreatedOrder(log) ==
    IF log = <<>> THEN <<>>
    ELSE LET rest == CreatedOrder(SubSeq(log, 1, Len(log) - 1))
             e == log[Len(log)]
         IN  IF e.type = "SessionCreated" THEN Append(rest, e.sessionId)
             ELSE rest

\* C20: the registry is append-only and ordered by creation: it lists the
\* ids of the accepted createSession calls in the order of the calls; a
\* step either leaves it alone or is an accepted createSession that appends
\* its id as the last entry, the earlier entries staying in place.
C20_RegistryAppendOnly ==
    /\ [](sessionIds = CreatedOrder(events))
    /\ [][\/ sessionIds' = sessionIds
          \/ \E id \in DOMAIN sessions :
                 /\ sessionIds' = Append(sessionIds, id)
                 /\ SubSeq(sessionIds', 1, Len(sessionIds)) = sessionIds
                 /\ createSessionRevert(id, sessions'[id].threshold,
                                        sessions'[id].totalShards) = NoRevert
                 /\ events' = Append(events,
                        [type |-> "SessionCreated", sessionId |-> id,
                         creator |-> sessions'[id].creator])]_vars

\* C20 witness: two sessions created in the order s2, s1, the first of them
\* then given a shard that was verified
C20_Witness ==
    /\ sessionIds = <<"s2", "s1">>
    /\ sessions["s2"].isComplete
    /\ sessionShards["s2"][0].isVerified

\* the positions of a log that hold an event satisfying a test
PositionsOf(log, Test(_)) == {k \in 1 .. Len(log) : Test(log[k])}

\* C21: the events of a session come in lifecycle order: every ShardAdded
\* after a SessionCreated of its session, every ShardVerified after the
\* ShardAdded of its slot, and the single SessionCompleted right after the
\* ShardVerified of the shard that brought the count to threshold; a step
\* that is no accepted call emits nothing, an accepted call emits its own
\* events at the end of the log.
C21_LifecycleOrder ==
    /\ [](\A k \in 1 .. Len(events) :
            LET e == events[k]
                Created(x) == x.type = "SessionCreated"
                                  /\ x.sessionId = e.sessionId
                Added(x) == x.type = "ShardAdded" /\ x.sessionId = e.sessionId
                                /\ x.shardIndex = e.shardIndex
                Completed(x) == x.type = "SessionCompleted"
                                    /\ x.sessionId = e.sessionId
            IN  /\ e.type = "ShardAdded" =>
                       \E j \in PositionsOf(events, Created) : j < k
                /\ e.type = "ShardVerified" =>
                       \E j \in PositionsOf(events, Added) : j < k
                /\ e.type = "SessionCompleted" =>
                       /\ k > 1
                       /\ events[k - 1].type = "ShardVerified"
                       /\ events[k - 1].sessionId = e.sessionId
                       /\ PositionsOf(events, Completed) = {k})
    /\ [][\/ UNCHANGED vars
          \/ /\ Len(events') > Len(events)
             /\ SubSeq(events', 1, Len(events)) = events
             /\ LET last == events'[Len(events')]
                IN  \/ /\ last.type = "SessionCreated"
                       /\ Len(events') = Len(events) + 1
                       /\ sessions[last.sessionId].name = ""
                    \/ /\ last.type = "ShardAdded"
                       /\ Len(events') = Len(events) + 1
                       /\ sessionShards[last.sessionId][last.shardIndex].holder
                              = ZeroAddress
                    \/ /\ last.type = "ShardVerified"
                       /\ Len(events') = Len(events) + 1
                       /\ ~sessionShards[last.sessionId][last.shardIndex].isVerified
                    \/ /\ last.type = "SessionCompleted"
                       /\ Len(events') = Len(events) + 2
                       /\ ~sessions[last.sessionId].isComplete]_vars

\* C21 witness: a log that ends with the ShardVerified of the second of two
\* shards, which brought the count to threshold 2, and the SessionCompleted
C21_Witness ==
    /\ Len(events) >= 6
    /\ events[Len(events)].type = "SessionCompleted"
    /\ events[Len(events) - 1].type = "ShardVerified"
    /\ sessions[events[Len(events)].sessionId].threshold = 2
    /\ \E k \in 1 .. Len(events) - 2 : events[k].type = "ShardVerified"

\* C22 (as claimed): decryptShard treats an already verified shard as a
\* success: when the record it reads has isVerified it submits nothing and
\* returns the stored value with status success, and when the contract
\* rejects the verification it submitted with "Shard already verified" the
\* flow ends with status success.
C22_AlreadyVerifiedIsSuccess ==
    [][/\ (/\ decryptPc.at = "idle"
           /\ decryptReturn' # decryptReturn
           /\ isConnected
           /\ \E id \in SessionIdSet, i \in 0 .. 1 :
                  /\ decryptShard(id, i)
                  /\ getShardRevert(id, i) = NoRevert
                  /\ sessionShards[id][i].isVerified)
              => /\ transactionStatus'.status = "success"
                 /\ decryptReturn'.kind = "stored"
                 /\ ~decryptReturn'.submitted
                 /\ UNCHANGED vars
       /\ (/\ decryptPc.at = "verifying"
           /\ decryptPc'.at = "idle"
           /\ sessionShards[decryptPc.sessionId][decryptPc.shardIndex].isVerified)
              => /\ transactionStatus'.status = "success"
                 /\ UNCHANGED vars]_<<vars, clientVars>>

\* C23: at most one initialize() call is in flight, and fhevmInitializing
\* tells whether one is; a call is started only while the wallet is
\* connected and the FHEVM is not initialised; when a call settles, by
\* resolving or by throwing, fhevmInitializing is false again.
C23_SingleInitialization ==
    /\ [](/\ initializeCalls <= 1
          /\ fhevmInitializing <=> (initializeCalls = 1))
    /\ [][/\ initializeCalls' > initializeCalls
              => /\ isConnected
                 /\ ~fhevmInitialized
                 /\ initializeCalls = 0
          /\ initializeCalls' < initializeCalls
              => ~fhevmInitializing']_<<vars, clientVars>>

\* C23 witness: the FHEVM is initialised after an earlier attempt threw
\* (its error banner is still shown), and nothing is in flight
C23_Witness ==
    /\ fhevmInitialized
    /\ ~fhevmInitializing
    /\ initializeCalls = 0
    /\ transactionStatus.message = "FHEVM initialization failed"

\* C24: the number of verified shards of a session never exceeds its
\* threshold, and no shard of a complete session becomes verified.
C24_VerifiedAtMostThreshold ==
    /\ [](\A id \in DOMAIN sessions :
            Cardinality({i \in ShardIndexes : sessionShards[id][i].isVerified})
                <= sessions[id].threshold)
    /\ [][\A id \in DOMAIN sessions :
            sessions[id].isComplete =>
                \A i \in ShardIndexes :
                    sessionShards'[id][i].isVerified
                        = sessionShards[id][i].isVerified]_vars

\* C24 witness: a complete session with as many verified shards as its
\* threshold and one more shard, stored but not verified
C24_Witness ==
    \E id \in DOMAIN sessions, i \in ShardIndexes :
        /\ sessions[id].isComplete
        /\ Cardinality(VerifiedSlots(id)) = sessions[id].threshold
        /\ sessionShards[id][i].holder # ZeroAddress
        /\ ~sessionShards[id][i].isVerified
        /\ Uint256(0, ClearOf(sessionShards[id][i].encryptedValue))
               \in {sessions[id].publicValue1, sessions[id].publicValue2}

\* C25: a session of the registry is complete if and only if its count of
\* verified shards is at least its threshold.
C25_CompleteIffThreshold ==
    \A id \in RegisteredIds :
        sessions[id].isComplete
            <=> (getVerifiedShardCount(sessions, sessionShards, id)
                     >= sessions[id].threshold)

\* C25 witness: a session with threshold 2 that is one verification short
C25_Witness ==
    \E id \in RegisteredIds :
        /\ sessions[id].threshold = 2
        /\ getVerifiedShardCount(sessions, sessionShards, id) = 1
        /\ ~sessions[id].isComplete
        /\ shardCount[id] = 2

\* the slots in [0, totalShards) of a session that hold a shard
OccupiedSlots(id) ==
    {i \in ShardIndexes :
        i < sessions[id].totalShards /\ sessionShards[id][i].holder # ZeroAddress}

\* C26: the shard count of a session equals the number of occupied slots
\* with index in [0, totalShards) and is at most totalShards; no slot
\* outside that range is occupied.
C26_ShardCountIsOccupiedSlots ==
    \A id \in DOMAIN sessions :
        /\ shardCount[id] = Cardinality(OccupiedSlots(id))
        /\ shardCount[id] <= sessions[id].totalShards
        /\ \A i \in ShardIndexes :
               sessionShards[id][i].holder # ZeroAddress => i \in OccupiedSlots(id)

\* C26 witness: a session all of whose slots, as many as a caller may ask
\* for, are occupied
C26_Witness ==
    \E id \in DOMAIN sessions :
        /\ sessions[id].totalShards = MaxShards
        /\ shardCount[id] = MaxShards

\* C27 (as claimed): the registry holds no id twice, and the ids it holds
\* are exactly the ids under which a session exists (as getSession tells).
C27_RegistryMatchesSessions ==
    /\ \A j, k \in 1 .. Len(sessionIds) : j # k => sessionIds[j] # sessionIds[k]
    /\ RegisteredIds = {id \in DOMAIN sessions : getSessionRevert(id) = NoRevert}

\* C28: every verified shard of a session has one of the two candidates as
\* its clear value, and the reconstructed value of a complete session is 0,
\* a candidate, or the XOR of the two candidates.
C28_ValueFromCandidates ==
    \A id \in DOMAIN sessions :
        LET c1 == sessions[id].publicValue1
            c2 == sessions[id].publicValue2
        IN  /\ \A i \in VerifiedSlots(id) :
                   Uint256(0, ClearOf(sessionShards[id][i].encryptedValue))
                       \in {c1, c2}
            /\ sessions[id].isComplete
                   => Uint256(0, sessions[id].decryptedValue)
                          \in {Uint256(0, 0), c1, c2,
                               Uint256(Xor(c1.high, c2.high), Xor(c1.low, c2.low))}

\* C28 witness: a session completed from two verified shards that both hold
\* the same candidate, which cancel to 0
C28_Witness ==
    \E id \in DOMAIN sessions :
        /\ sessions[id].isComplete
        /\ Cardinality(VerifiedSlots(id)) = 2
        /\ sessions[id].publicValue1 # Uint256(0, 0)
        /\ sessions[id].decryptedValue = 0

\* C29: clear values are decoded as uint32 and compared with 256-bit
\* candidates: a verified shard matches a candidate below 2^32, a session
\* whose candidates are both 2^32 or more has no verified shard and is not
\* complete, and the reconstructed value is below 2^32.
C29_ClearValuesAre32Bit ==
    \A id \in DOMAIN sessions :
        LET c1 == sessions[id].publicValue1
            c2 == sessions[id].publicValue2
        IN  /\ \A i \in ShardIndexes :
                   sessionShards[id][i].isVerified =>
                       \E c \in {c1, c2} :
                           /\ c.high = 0
                           /\ c.low = ClearOf(sessionShards[id][i].encryptedValue)
            /\ (c1.high > 0 /\ c2.high > 0) =>
                   /\ \A i \in ShardIndexes : ~sessionShards[id][i].isVerified
                   /\ ~sessions[id].isComplete
            /\ sessions[id].decryptedValue >= 0
            /\ sessions[id].decryptedValue \div (2 ^ 16) < 2 ^ 16

\* C29 witness: a session whose candidates are both 2^32 or more, holding a
\* publicly decryptable shard whose clear value equals the low 32 bits of a
\* candidate
C29_Witness ==
    \E id \in DOMAIN sessions, i \in ShardIndexes :
        /\ sessions[id].publicValue1.high > 0
        /\ sessions[id].publicValue2.high > 0
        /\ sessionShards[id][i].encryptedValue \in decryptable
        /\ ClearOf(sessionShards[id][i].encryptedValue)
               = sessions[id].publicValue1.low
        /\ i < sessions[id].totalShards

====
